---------------------------- MODULE Spec2Model ----------------------------
(***************************************************************************)
(* Model of the tsffs "confuse" simple example: the host driver            *)
(* (simple-example/testcode.c), the shared-memory channel it fills and     *)
(* inspects, and the guest harness sample                                  *)
(* (tests/rsrc/x86_64-uefi-smi/src/HelloWorld.c).                          *)
(*                                                                         *)
(* The library behind confuse_ll.h / confuse_dio.h / tsffs.h               *)
(* (confuse_create_dio_shared_mem, confuse_init, confuse_reset,            *)
(* confuse_run, HARNESS_START, HARNESS_STOP) is not part of the sources;   *)
(* those operations are modelled from spec.md sections 4.1 - 4.3 and 5.    *)
(***************************************************************************)
EXTENDS Integers, Sequences, FiniteSets, TLC

---------------------------------------------------------------------------
(* Program constants *)

\* sizeof(size_t) on the x86_64 host: the width of the length header.
HeaderSize == 8

\* size_t len = 20;   (testcode.c:54)
InputLen == 20

\* sizeof charset - 1   (testcode.c:12,16)
CharsetLen == 69

\* UINTN input_max_size = 64;   (HelloWorld.c:35)
input_max_size == 64

\* SetMem((VOID *)input, input_max_size, 0x44);   (HelloWorld.c:43)
FillByte == 68

\* sizeof(lockbox_guid)   (HelloWorld.c:48)
GuidSize == 16

(* Bounds of the model *)

\* Bytes of the shared region that are modelled.  The driver allocates
\* 16*1024*1024 bytes (testcode.c:35); the model keeps a region just large
\* enough for the header and the driver's payload plus some slack.
ShmSize == 30

\* Iterations of the driver loop (1000 in testcode.c:51).
NIter == 3

\* Deadline of one run, in timer ticks (configurable, spec.md 4.3).
Deadline == 2

---------------------------------------------------------------------------
(* Bytes, strings and the charset *)

Punct == <<44, 46, 45, 35, 39, 63, 33>>           \* , . - # ' ? !

\* charset[key], key in 0..68: a-z, A-Z, 0-9, then the punctuation.
charset(key) ==
    IF key < 26 THEN 97 + key
    ELSE IF key < 52 THEN 65 + (key - 26)
    ELSE IF key < 62 THEN 48 + (key - 52)
    ELSE Punct[key - 61]

\* The literal "Fail", without its terminator.
FailLit == <<70, 97, 105, 108>>

\* Capacity of the payload area.
PayloadCap == ShmSize - HeaderSize

\* The values rand() % 69 takes over one call of rand_string: key number n
\* (0-based) of the pattern (k, step).
RandKey(k, step, n) == (k + step * n) % CharsetLen

RandPatterns == { <<0, 0>>, <<31, 0>>, <<5, 7>>, <<68, 1>> }

\* The bytes rand_string(str, size) means to leave at str[0 .. size-1].
Payload(size, pat) ==
    [n \in 1..size |->
        IF n < size THEN charset(RandKey(pat[1], pat[2], n - 1)) ELSE 0]

---------------------------------------------------------------------------
(* The shared region: a function from offsets 0 .. ShmSize-1 to bytes *)

InRegion(off) == off >= 0 /\ off < ShmSize

\* A store through a pointer: inside the region it lands in the region;
\* past its end it lands in memory the model does not hold.
Store(mem, off, b) ==
    IF InRegion(off) THEN [mem EXCEPT ![off] = b] ELSE mem

\* for (size_t n = 0; n < size; n++) str[n] = charset[key];  with size
\* already decremented: the loop of rand_string, from index n.
RECURSIVE RandLoop(_, _, _, _, _)
RandLoop(mem, off, n, size, pat) ==
    IF n < size
    THEN RandLoop(Store(mem, off + n, charset(RandKey(pat[1], pat[2], n))),
                  off, n + 1, size, pat)
    ELSE mem

rand_string_wrongterm(mem, off, size, pat) ==
    IF size # 0
    THEN Store(RandLoop(mem, off, 0, size - 1, pat), off + size, 0)
    ELSE mem

\* rand_string(str, size), str = shm_array + off.
rand_string(mem, off, size, pat) ==
    IF size # 0
    THEN Store(RandLoop(mem, off, 0, size - 1, pat), off + (size - 1), 0)
    ELSE mem

\* The object representation of a size_t on the little-endian host.
RECURSIVE LEBytes(_, _)
LEBytes(v, w) ==
    IF w = 0 THEN <<>> ELSE <<v % 256>> \o LEBytes(v \div 256, w - 1)

RECURSIVE CopyIn(_, _, _)
CopyIn(mem, off, bytes) ==
    IF bytes = <<>> THEN mem
    ELSE CopyIn(Store(mem, off, Head(bytes)), off + 1, Tail(bytes))

memcpy_len_bigendian(mem, len) ==
    CopyIn(mem, 0, [k \in 1..HeaderSize |-> LEBytes(len, HeaderSize)[HeaderSize + 1 - k]])

\* memcpy(shm_array, &len, sizeof(size_t));
memcpy_len(mem, len) == CopyIn(mem, 0, LEBytes(len, HeaderSize))

ChannelWrite_ZeroFill(mem, len, pat) ==
    memcpy_len(rand_string([off \in DOMAIN mem |-> 0], HeaderSize, len, pat), len)

ChannelWrite_HeaderOnly(mem, len, pat) == memcpy_len(mem, len)

\* The driver's write of one input: payload first, then the header.
ChannelWrite(mem, len, pat) ==
    memcpy_len(rand_string(mem, HeaderSize, len, pat), len)

\* The bytes mem[off .. off+n-1] as a sequence.
Bytes(mem, off, n) == [k \in 1..n |-> mem[off + k - 1]]

\* The header as a number.  A header with a nonzero byte above the third
\* is larger than any capacity of the model; it is reported as PayloadCap+1.
HeaderValue(mem) ==
    IF \E k \in 3..(HeaderSize - 1) : mem[k] # 0
    THEN PayloadCap + 1
    ELSE mem[0] + 256 * mem[1] + 65536 * mem[2]

\* read() of spec.md 4.1: the header, then exactly that many payload bytes.
ChannelRead(mem) ==
    IF HeaderValue(mem) > PayloadCap
    THEN [status |-> "ProtocolFault", bytes |-> <<>>]
    ELSE [status |-> "Ok", bytes |-> Bytes(mem, HeaderSize, HeaderValue(mem))]

\* strcmp(shm_array + off, lit) == 0, lit a literal without NUL bytes: every
\* byte of lit matches and the byte after them is the terminator.
StrEq(mem, off, lit) ==
    /\ \A k \in 1..Len(lit) : InRegion(off + k - 1) /\ mem[off + k - 1] = lit[k]
    /\ InRegion(off + Len(lit)) /\ mem[off + Len(lit)] = 0

---------------------------------------------------------------------------
(* State *)

VARIABLES
    pc,          \* where main() is
    argc,        \* main's argument count
    shm,         \* the shared region, shm_array[0 .. ShmSize-1]
    simics,      \* the ExecutionContext behind the simics handle
    vm,          \* the simulated machine: the guest's registers and memory
    i,           \* the loop counter
    failcnt,     \* int failcnt
    exitStatus,  \* the process's exit status, -1 while it runs
    out,         \* the lines printed, in order
    h,           \* history: what has happened so far (not program state)
    chan         \* the channel operations applied on their own (ChanSpec)

vars == <<pc, argc, shm, simics, vm, i, failcnt, exitStatus, out, h, chan>>

\* The region filled with one byte.
Filled(b) == [off \in 0..(ShmSize - 1) |-> b]

\* The states of the guest side (spec.md 4.2).
GuestStates == {"Idle", "AwaitingInput", "Running", "Suspended"}

\* No machine yet (before confuse_init).
NoVM ==
    [gstate |-> "None", gpc |-> "none", input |-> <<>>, input_size |-> 0,
     lockbox |-> <<>>, status |-> "none"]

\* The machine as confuse_init leaves it: the firmware is about to enter
\* HelloWorldDxeInitialize; nothing is allocated.
BootVM ==
    [gstate |-> "Idle", gpc |-> "entry", input |-> <<>>, input_size |-> 0,
     lockbox |-> <<>>, status |-> "none"]

NoContext ==
    [state |-> "none", baseline |-> NoVM, elapsed |-> 0, outcome |-> "none"]

NoHistory ==
    [nInit |-> 0,            \* calls of confuse_init
     nReset |-> 0, nInject |-> 0, nRun |-> 0,
     resetFrom |-> {},        \* the guest states resets have found
     enters |-> 0,            \* HARNESS_START calls since the last reset
     exits |-> 0,             \* HARNESS_STOP calls since the last reset
     input |-> <<>>,          \* the payload of the last inject
     wroteMarker |-> FALSE,   \* the guest wrote "Fail" during the current run
     markerIters |-> 0,       \* iterations in which it did
     abnormalCounted |-> 0,   \* iterations counted in failcnt that ended Crash or Timeout
     prevOutcome |-> "none",  \* the outcome of the run before the current one
     shmFailed |-> FALSE, initFailed |-> FALSE]

NoChan ==
    [phase |-> "off", len |-> 0, pat |-> <<0, 0>>, wstatus |-> "none",
     before |-> Filled(0), rd |-> [status |-> "none", bytes |-> <<>>],
     writes |-> 0]

Init ==
    /\ pc = "start"
    /\ argc \in 1..3
    /\ shm = Filled(0)
    /\ simics = NoContext
    /\ vm = NoVM
    /\ i = 0
    /\ failcnt = 0
    /\ exitStatus = -1
    /\ out = <<>>
    /\ h = NoHistory
    /\ chan = NoChan

---------------------------------------------------------------------------
(* main() of testcode.c *)

\* exit(n): the status the parent sees is n & 0377.
ExitCode(n) == n % 256

Line(text, n) == [text |-> text, n |-> n]

LoopOrder_InjectFirst == <<"inject", "reset", "run", "classify">>

LoopOrder_RunBeforeInject == <<"reset", "run", "inject", "classify">>

LoopOrder_ClassifyBeforeRun == <<"reset", "inject", "classify", "run">>

LoopOrder_ResetLast == <<"inject", "run", "classify", "reset">>

\* The statements of the loop body in program order (testcode.c:53-66):
\* confuse_reset, the write of the input, confuse_run, the strcmp.
LoopOrder == <<"reset", "inject", "run", "classify">>

\* The statement after `step`; after the last one, the loop's test.
PcAfter(step) ==
    LET k == CHOOSE n \in 1..Len(LoopOrder) : LoopOrder[n] = step IN
    IF k < Len(LoopOrder) THEN LoopOrder[k + 1] ELSE "loop"

LoopExit_OnAbnormal ==
    i >= NIter \/ simics.outcome \in {"Timeout", "Crash"}

\* The loop is left when i < 1000 fails, and by nothing else.
LoopExit == i >= NIter

\* if (argc != 2) { printf(...); exit(1); }
CheckArgs ==
    /\ pc = "start"
    /\ IF argc # 2
       THEN /\ out' = Append(out, Line("Please provide a path to a Simics project as an argument.", 0))
            /\ exitStatus' = ExitCode(1)
            /\ pc' = "exited"
       ELSE /\ pc' = "alloc"
            /\ UNCHANGED <<out, exitStatus>>
    /\ UNCHANGED <<argc, shm, simics, vm, i, failcnt, h, chan>>

CreateShm_NoNullCheck ==
    /\ pc = "alloc"
    /\ \/ /\ \E fill \in {0, 255} : shm' = Filled(fill)
          /\ UNCHANGED h
       \/ /\ h' = [h EXCEPT !.shmFailed = TRUE]
          /\ UNCHANGED shm
    /\ pc' = "init"
    /\ UNCHANGED <<argc, simics, vm, i, failcnt, exitStatus, out, chan>>

\* shm_array = confuse_create_dio_shared_mem(16*1024*1024);
\* if (shm_array == NULL) { printf(...); exit(-1); }
CreateShm ==
    /\ pc = "alloc"
    /\ \/ /\ \E fill \in {0, 255} : shm' = Filled(fill)
          /\ pc' = "init"
          /\ UNCHANGED <<out, exitStatus, h>>
       \/ /\ out' = Append(out, Line("Could not create shm.", 0))
          /\ exitStatus' = ExitCode(-1)
          /\ pc' = "exited"
          /\ h' = [h EXCEPT !.shmFailed = TRUE]
          /\ UNCHANGED shm
    /\ UNCHANGED <<argc, simics, vm, i, failcnt, chan>>

\* init of spec.md 4.3: constructs the VM and captures the baseline.
confuse_init_ok ==
    /\ vm' = BootVM
    /\ simics' = [state |-> "ready", baseline |-> BootVM, elapsed |-> 0,
                  outcome |-> "none"]

\* int rv = confuse_init(argv[1], "...yml", &simics);
\* if (rv) { printf(...); exit(-1); }
ConfuseInit ==
    /\ pc = "init"
    /\ \/ /\ confuse_init_ok
          /\ pc' = "loop"
          /\ out' = Append(out, Line("Loop start", 0))
          /\ h' = [h EXCEPT !.nInit = @ + 1]
          /\ UNCHANGED exitStatus
       \/ /\ out' = Append(out, Line("Could not initialize Simics.", 0))
          /\ exitStatus' = ExitCode(-1)
          /\ pc' = "exited"
          /\ h' = [h EXCEPT !.nInit = @ + 1, !.initFailed = TRUE]
          /\ UNCHANGED <<vm, simics>>
    /\ UNCHANGED <<argc, shm, i, failcnt, chan>>

\* for (int i = 0; i < 1000; i ++)
LoopTest ==
    /\ pc = "loop"
    /\ pc' = IF LoopExit THEN "report" ELSE LoopOrder[1]
    /\ UNCHANGED <<argc, shm, simics, vm, i, failcnt, exitStatus, out, h, chan>>

Restore_RegistersOnly(ctx, machine) ==
    [machine EXCEPT !.gstate = ctx.baseline.gstate, !.gpc = ctx.baseline.gpc]

Restore_NotAfterCrash(ctx, machine) ==
    IF machine.gpc = "crashed" THEN machine ELSE ctx.baseline

Restore_UnlessSuspended(ctx, machine) ==
    IF machine.gstate = "Suspended" THEN machine ELSE ctx.baseline

\* reset of spec.md 4.3: the machine is the baseline again.
Restore(ctx, machine) == ctx.baseline

\* confuse_reset(simics);
ConfuseReset ==
    /\ pc = "reset"
    /\ vm' = Restore(simics, vm)
    /\ simics' = [simics EXCEPT !.state = "reset"]
    /\ pc' = PcAfter("reset")
    /\ h' = [h EXCEPT !.nReset = @ + 1, !.wroteMarker = FALSE,
                      !.resetFrom = @ \cup {vm.gstate}, !.enters = 0, !.exits = 0]
    /\ UNCHANGED <<argc, shm, i, failcnt, exitStatus, out, chan>>

\* size_t len = 20; rand_string(shm_array+sizeof(size_t), len);
\* memcpy(shm_array, &len, sizeof(size_t));
Inject ==
    /\ pc = "inject"
    /\ \E pat \in RandPatterns :
          /\ shm' = ChannelWrite(shm, InputLen, pat)
          /\ h' = [h EXCEPT !.nInject = @ + 1, !.input = Payload(InputLen, pat)]
    /\ pc' = PcAfter("inject")
    /\ UNCHANGED <<argc, simics, vm, i, failcnt, exitStatus, out, chan>>

---------------------------------------------------------------------------
(* run of spec.md 4.3 and the guest it resumes *)

\* confuse_run(simics);  the call: the host blocks, the guest is resumed.
ConfuseRun ==
    /\ pc = "run"
    /\ simics' = [simics EXCEPT !.state = "running", !.elapsed = 0,
                                !.outcome = "none"]
    /\ pc' = "running"
    /\ h' = [h EXCEPT !.nRun = @ + 1, !.prevOutcome = simics.outcome]
    /\ UNCHANGED <<argc, shm, vm, i, failcnt, exitStatus, out, chan>>

\* The guest executes only while the host is inside run.
GuestScheduled == pc = "running" /\ simics.state = "running"

GuestStart_NoHarnessStart ==
    /\ GuestScheduled
    /\ vm.gpc = "entry"
    /\ \/ vm' = [vm EXCEPT !.input = [k \in 1..input_max_size |-> FillByte],
                           !.input_size = input_max_size,
                           !.gpc = "work"]
       \/ vm' = [vm EXCEPT !.status = "EFI_OUT_OF_RESOURCES", !.gpc = "returned"]
    /\ UNCHANGED <<pc, argc, shm, simics, i, failcnt, exitStatus, out, h, chan>>

\* HelloWorld.c:34-45: allocate the input buffer, fill it with 0x44 and call
\* HARNESS_START(input, &input_size); or return EFI_OUT_OF_RESOURCES.
GuestStart ==
    /\ GuestScheduled
    /\ vm.gpc = "entry"
    /\ \/ /\ vm' = [vm EXCEPT !.input = [k \in 1..input_max_size |-> FillByte],
                              !.input_size = input_max_size,
                              !.gstate = "AwaitingInput",
                              !.gpc = "harness_start"]
          /\ h' = [h EXCEPT !.enters = @ + 1]
       \/ /\ vm' = [vm EXCEPT !.status = "EFI_OUT_OF_RESOURCES",
                              !.gpc = "returned"]
          /\ UNCHANGED h
    /\ UNCHANGED <<pc, argc, shm, simics, i, failcnt, exitStatus, out, chan>>

Min(a, b) == IF a < b THEN a ELSE b

\* The testcase as the guest gets it: at most the published maximum.
Delivered(machine, bytes) ==
    [k \in 1..Len(machine.input) |->
        IF k <= Min(Len(bytes), machine.input_size) THEN bytes[k]
        ELSE machine.input[k]]

\* enter of spec.md 4.2, the host's half: populate the published buffer from
\* the channel, write the actual length, resume the guest.
HostDeliver ==
    /\ GuestScheduled
    /\ vm.gpc = "harness_start"
    /\ LET rd == ChannelRead(shm) IN
       IF rd.status = "Ok"
       THEN /\ vm' = [vm EXCEPT !.input = Delivered(vm, rd.bytes),
                                !.input_size = Min(Len(rd.bytes), vm.input_size),
                                !.gstate = "Running",
                                !.gpc = "work"]
            /\ UNCHANGED <<pc, simics, h>>
       ELSE /\ simics' = [simics EXCEPT !.state = "returned",
                                        !.outcome = "ProtocolFault"]
            /\ pc' = PcAfter("run")
            /\ UNCHANGED <<vm, h>>
    /\ UNCHANGED <<argc, shm, i, failcnt, exitStatus, out, chan>>

\* HelloWorld.c:47-54: CopyMem(&lockbox_guid, input, 16);
\* Status = SaveLockBox(&lockbox_guid, input, input_size);
GuestWork ==
    /\ GuestScheduled
    /\ vm.gpc = "work"
    /\ vm' = [vm EXCEPT
                !.lockbox = [guid |-> SubSeq(vm.input, 1, GuidSize),
                             data |-> SubSeq(vm.input, 1, vm.input_size)],
                !.status = "saved",
                !.gpc = "output"]
    /\ UNCHANGED <<pc, argc, shm, simics, i, failcnt, exitStatus, out, h, chan>>

\* The result strings a guest may leave (testcode.c:65: "we just get a
\* string"): "Fail" or "Fail!".
GuestStrings == { FailLit, FailLit \o <<33>> }

\* The guest stores a NUL-terminated string at the start of the payload and,
\* with hdr, its length in the header.
GuestStore(mem, str, hdr) ==
    LET body == CopyIn(mem, HeaderSize, str \o <<0>>) IN
    IF hdr THEN CopyIn(body, 0, LEBytes(Len(str), HeaderSize)) ELSE body

\* The guest reports its result through the output region, or leaves the
\* region alone.
GuestOutput ==
    /\ GuestScheduled
    /\ vm.gpc = "output"
    /\ \/ /\ \E str \in GuestStrings, hdr \in BOOLEAN :
               /\ shm' = GuestStore(shm, str, hdr)
               /\ h' = [h EXCEPT !.wroteMarker = (str = FailLit)]
       \/ UNCHANGED <<shm, h>>
    /\ vm' = [vm EXCEPT !.gpc = "stop"]
    /\ UNCHANGED <<pc, argc, simics, i, failcnt, exitStatus, out, chan>>

\* HelloWorld.c:59-65, were the guest to go on after HARNESS_STOP:
\* FreePages(input, ...); Print(L"Done..."); return EFI_SUCCESS;
HarnessStop_FallsThrough(machine) ==
    [machine EXCEPT !.input = <<>>, !.status = "EFI_SUCCESS", !.gpc = "returned"]

\* exit of spec.md 4.2: the guest is suspended at the control point; the
\* statements after it (HelloWorld.c:59-65) are not executed.
HarnessStop(machine) ==
    [machine EXCEPT !.gstate = "Suspended", !.gpc = "harness_stop"]

\* HelloWorld.c:57: HARNESS_STOP();
GuestStop ==
    /\ GuestScheduled
    /\ vm.gpc = "stop"
    /\ vm' = HarnessStop(vm)
    /\ h' = [h EXCEPT !.exits = @ + 1]
    /\ UNCHANGED <<pc, argc, shm, simics, i, failcnt, exitStatus, out, chan>>

\* An unrecoverable fault inside the simulated machine.
GuestFault ==
    /\ GuestScheduled
    /\ vm.gpc \in {"work", "output", "stop"}
    /\ vm' = [vm EXCEPT !.gpc = "crashed"]
    /\ UNCHANGED <<pc, argc, shm, simics, i, failcnt, exitStatus, out, h, chan>>

\* The guest enters a loop it never leaves, before reaching exit.
GuestHang ==
    /\ GuestScheduled
    /\ vm.gpc \in {"work", "output", "stop"}
    /\ vm' = [vm EXCEPT !.gpc = "hung"]
    /\ UNCHANGED <<pc, argc, shm, simics, i, failcnt, exitStatus, out, h, chan>>

\* The guest can make no step that leads to exit.
Stalled(machine) == machine.gpc \in {"hung", "returned"}

\* Time passes against the deadline of the run.  (The deadline is taken to
\* exceed the time a guest that reaches exit needs.)
Tick ==
    /\ GuestScheduled
    /\ Stalled(vm)
    /\ simics.elapsed < Deadline
    /\ simics' = [simics EXCEPT !.elapsed = @ + 1]
    /\ UNCHANGED <<pc, argc, shm, vm, i, failcnt, exitStatus, out, h, chan>>

Classified_NoDeadline(ctx, machine) ==
    IF machine.gstate = "Suspended" THEN "Completed"
    ELSE IF machine.gpc = "crashed" THEN "Crash"
    ELSE "none"

\* The outcome run reports for the state the machine is in, "none" while the
\* guest is still to be run.
Classified(ctx, machine) ==
    IF machine.gstate = "Suspended" THEN "Completed"
    ELSE IF machine.gpc = "crashed" THEN "Crash"
    ELSE IF ctx.elapsed >= Deadline THEN "Timeout"
    ELSE "none"

\* confuse_run returns: the guest reached exit, faulted, or ran out of time.
RunReturn ==
    /\ GuestScheduled
    /\ Classified(simics, vm) # "none"
    /\ simics' = [simics EXCEPT !.state = "returned",
                                !.outcome = Classified(simics, vm)]
    /\ pc' = PcAfter("run")
    /\ h' = [h EXCEPT !.markerIters = IF h.wroteMarker THEN @ + 1 ELSE @]
    /\ UNCHANGED <<argc, shm, vm, i, failcnt, exitStatus, out, chan>>

---------------------------------------------------------------------------
(* The rest of the loop body, and the end of main() *)

\* strcmp(shm_array+sizeof(size_t), "Fail") == 0
IsFail(mem) == StrEq(mem, HeaderSize, FailLit)

\* if (strcmp(...) == 0) failcnt++;   and the loop's i ++
Classify ==
    /\ pc = "classify"
    /\ failcnt' = IF IsFail(shm) THEN failcnt + 1 ELSE failcnt
    /\ i' = i + 1
    /\ pc' = PcAfter("classify")
    /\ h' = [h EXCEPT !.abnormalCounted =
                IF IsFail(shm) /\ simics.outcome \in {"Crash", "Timeout"}
                THEN @ + 1 ELSE @]
    /\ UNCHANGED <<argc, shm, simics, vm, exitStatus, out, chan>>

\* printf("Total duration %lf with %d failures \n", duration, failcnt);
\* return 0;
Report ==
    /\ pc = "report"
    /\ out' = Append(out, Line("Total duration with failures", failcnt))
    /\ exitStatus' = ExitCode(0)
    /\ pc' = "exited"
    /\ UNCHANGED <<argc, shm, simics, vm, i, failcnt, h, chan>>

Driver ==
    \/ CheckArgs \/ CreateShm \/ ConfuseInit \/ LoopTest \/ ConfuseReset
    \/ Inject \/ ConfuseRun \/ Classify \/ Report

Guest ==
    \/ GuestStart \/ GuestWork \/ GuestOutput \/ GuestStop
    \/ GuestFault \/ GuestHang

Host == HostDeliver \/ Tick \/ RunReturn

Next == Driver \/ Guest \/ Host

Spec == Init /\ [][Next]_vars

\* The simulator keeps executing the guest, time keeps passing, and the
\* single host thread keeps running main().
FairSpec == Spec /\ WF_vars(Driver) /\ WF_vars(Guest) /\ WF_vars(Host)

---------------------------------------------------------------------------
(* The channel operations on their own: the write of testcode.c:54-56 for   *)
(* every length, each followed by read()                                    *)

\* Writes applied in one behaviour.
MaxWrites == 2

\* What the region may hold before the first write: zeros, all-ones, or
\* what an iteration of the driver leaves.
ChanFills ==
    { Filled(0), Filled(255),
      GuestStore(ChannelWrite(Filled(0), InputLen, <<5, 7>>), FailLit, FALSE) }

ChanInit ==
    /\ pc = "channel"
    /\ argc = 2
    /\ shm \in ChanFills
    /\ simics = NoContext
    /\ vm = NoVM
    /\ i = 0
    /\ failcnt = 0
    /\ exitStatus = -1
    /\ out = <<>>
    /\ h = NoHistory
    /\ chan = [NoChan EXCEPT !.phase = "idle"]

\* rand_string(shm_array+sizeof(size_t), len); memcpy(shm_array, &len, ...)
\* with len within the region, or past it.  Past it the stores of
\* rand_string leave the allocation: they either land in whatever memory
\* follows it, and the header is written, or the first of them faults.
ChanWrite ==
    /\ pc = "channel"
    /\ chan.phase \in {"idle", "read"}
    /\ chan.writes < MaxWrites
    /\ \E len \in 0..(PayloadCap + 2), pat \in {<<5, 7>>, <<68, 1>>} :
          \/ /\ len <= PayloadCap
             /\ shm' = ChannelWrite(shm, len, pat)
             /\ chan' = [chan EXCEPT !.phase = "written", !.len = len,
                            !.pat = pat, !.wstatus = "Ok", !.before = shm,
                            !.writes = @ + 1]
          \/ /\ len > PayloadCap
             /\ shm' = ChannelWrite(shm, len, pat)
             /\ chan' = [chan EXCEPT !.phase = "written", !.len = len,
                            !.pat = pat, !.wstatus = "Overflow", !.before = shm,
                            !.writes = @ + 1]
          \/ /\ len > PayloadCap
             /\ shm' = RandLoop(shm, HeaderSize, 0, PayloadCap, pat)
             /\ chan' = [chan EXCEPT !.phase = "written", !.len = len,
                            !.pat = pat, !.wstatus = "SIGSEGV", !.before = shm,
                            !.writes = @ + 1]
    /\ UNCHANGED <<pc, argc, simics, vm, i, failcnt, exitStatus, out, h>>

\* read() of spec.md 4.1, applied to the region as it is.
ChanRead ==
    /\ pc = "channel"
    /\ chan.phase \in {"idle", "written"}
    /\ chan.wstatus # "SIGSEGV"
    /\ chan' = [chan EXCEPT !.phase = "read", !.rd = ChannelRead(shm)]
    /\ UNCHANGED <<pc, argc, shm, simics, vm, i, failcnt, exitStatus, out, h>>

ChanNext == ChanWrite \/ ChanRead

ChanSpec == ChanInit /\ [][ChanNext]_vars

---------------------------------------------------------------------------
(* Properties *)

\* C1: a write of a payload of length at most capacity - header_size,
\* immediately followed by read(), returns exactly the payload written: the
\* same length and the same bytes, whatever the region held before.
C1_RoundTrip ==
    (chan.phase = "read" /\ chan.wstatus = "Ok")
        => chan.rd = [status |-> "Ok", bytes |-> Payload(chan.len, chan.pat)]

\* C1 witness: a full-capacity payload written over the residue of an
\* earlier, different write has been read back.
C1_Witness ==
    /\ chan.phase = "read"
    /\ chan.wstatus = "Ok"
    /\ chan.len = PayloadCap
    /\ chan.writes = 2
    /\ Bytes(chan.before, HeaderSize, PayloadCap) # chan.rd.bytes
    /\ chan.rd.status = "Ok"
    /\ Len(chan.rd.bytes) = PayloadCap

C6_FailCountExact ==
    (pc = "exited" /\ i = NIter) =>
        (failcnt = h.markerIters /\ h.abnormalCounted = 0)

\* C7: once init has succeeded the driver performs every iteration and
\* reports the aggregate, whatever the outcomes of the iterations were.
C7_LoopNeverStopped ==
    /\ (simics.state = "ready")
          ~> (pc = "exited" /\ exitStatus = 0 /\ i = NIter /\ h.nRun = NIter)
    /\ [](pc \in {"report", "exited"} /\ simics.state # "none" => i = NIter)

\* C7 witness: the driver has finished after iterations that ended in
\* Timeout and in Crash and with a counted failure.
C7_Witness ==
    /\ pc = "exited"
    /\ i = NIter
    /\ h.prevOutcome = "Timeout"
    /\ simics.outcome = "Crash"
    /\ failcnt > 0

\* C8: when the allocation of the shared memory or init fails, the process
\* exits with a nonzero status and no reset, inject or run is ever
\* performed; when both succeed, the loop runs, the aggregate is printed
\* last and the exit status is 0.
C8_AbortOrComplete ==
    /\ (h.shmFailed \/ h.initFailed) =>
          (h.nReset = 0 /\ h.nInject = 0 /\ h.nRun = 0 /\ pc = "exited"
           /\ exitStatus # 0)
    /\ (pc = "exited" /\ argc = 2 /\ ~h.shmFailed /\ ~h.initFailed) =>
          /\ exitStatus = 0
          /\ h.nReset = NIter /\ h.nInject = NIter /\ h.nRun = NIter
          /\ out[Len(out)] = Line("Total duration with failures", failcnt)

\* C8 witness: both outcomes - here the run that went through the loop.
C8_Witness ==
    /\ pc = "exited"
    /\ exitStatus = 0
    /\ h.nRun = NIter
    /\ Len(out) = 2

C10_LengthDelimitedCompare ==
    pc = "classify" =>
        (IsFail(shm) <=> (/\ ChannelRead(shm).status = "Ok"
                          /\ ChannelRead(shm).bytes = FailLit))


\* C11: after run returns Crash the host process is still alive and the
\* context is still resettable: the driver goes on, the following reset puts
\* the machine back to the baseline, and the following inject and run are
\* performed on it.
C11_CrashSurvived ==
    /\ []((simics.state = "returned" /\ simics.outcome = "Crash")
             => \/ pc \in {"classify", "loop", "reset", "report"} /\ exitStatus = -1
                \/ pc = "exited" /\ i = NIter /\ exitStatus = 0)
    /\ []((simics.state = "reset" /\ simics.outcome = "Crash")
             => (vm = simics.baseline /\ vm.gstate = "Idle" /\ exitStatus = -1))
    /\ (simics.state = "returned" /\ simics.outcome = "Crash" /\ i + 1 < NIter)
          ~> (pc = "run" /\ simics.outcome = "Crash" /\ vm = simics.baseline
                /\ h.nInject = h.nReset)
    /\ (simics.state = "returned" /\ simics.outcome = "Crash" /\ i + 1 < NIter)
          ~> (simics.state = "running" /\ h.prevOutcome = "Crash"
                /\ exitStatus = -1)

\* C11 witness: the iteration after one that ended in Crash is running, and
\* the guest has taken its input from the baseline state again.
C11_Witness ==
    /\ simics.state = "running"
    /\ h.prevOutcome = "Crash"
    /\ vm.gstate = "Running"
    /\ exitStatus = -1


\* C12: the context is initialised exactly once, no reset or run happens
\* before init has succeeded, init is not repeated in the loop, and the
\* context has been destroyed when the process has exited.
C12_LifecycleDestroyed ==
    /\ h.nInit <= 1
    /\ (h.nReset > 0 \/ h.nRun > 0) => (h.nInit = 1 /\ ~h.initFailed)
    /\ (pc = "exited" /\ h.nInit = 1 /\ ~h.initFailed)
          => simics.state = "destroyed"


C14_EnterExitAlternate ==
    /\ [](h.enters <= 1 /\ h.exits <= h.enters)
    /\ [](simics.state # "none" =>
            /\ h.enters = 1 <=> vm.gstate \in {"AwaitingInput", "Running", "Suspended"}
            /\ h.exits = 1 <=> vm.gstate = "Suspended")
    /\ [][(vm'.gstate # vm.gstate /\ h'.nReset = h.nReset /\ vm.gstate # "None") =>
            \/ /\ vm.gstate = "Idle" /\ vm'.gstate = "AwaitingInput"
               /\ h'.enters = h.enters + 1 /\ h'.exits = h.exits
            \/ /\ vm.gstate = "AwaitingInput" /\ vm'.gstate = "Running"
               /\ h'.enters = h.enters /\ h'.exits = h.exits
            \/ /\ vm.gstate = "Running" /\ vm'.gstate = "Suspended"
               /\ h'.enters = h.enters /\ h'.exits = h.exits + 1]_vars
    /\ [][(h'.nReset = h.nReset /\ vm'.gstate = vm.gstate) =>
            (h'.enters = h.enters /\ h'.exits = h.exits)]_vars

\* C14 witness: in an iteration after the first the guest has passed enter
\* and exit once each and is Suspended.
C14_Witness ==
    /\ h.nReset >= 2
    /\ vm.gstate = "Suspended"
    /\ h.enters = 1
    /\ h.exits = 1


\* C15: the guest leaves AwaitingInput and does its work only after the
\* host has written the whole payload and its length for the current
\* iteration: what the guest holds and saves is that payload and that
\* length, never the pre-enter fill or part of an input.
C15_InputCompleteBeforeWork ==
    /\ [](vm.gstate \in {"Running", "Suspended"} =>
            /\ h.nInject = h.nReset
            /\ h.nRun = h.nReset
            /\ Len(h.input) = InputLen
            /\ vm.input_size = InputLen
            /\ SubSeq(vm.input, 1, vm.input_size) = h.input
            /\ \A k \in (vm.input_size + 1)..Len(vm.input) : vm.input[k] = FillByte)
    /\ [](vm.status = "saved" =>
            /\ vm.lockbox.data = h.input
            /\ vm.lockbox.guid = SubSeq(h.input, 1, GuidSize))
    /\ [][(vm.gstate = "AwaitingInput" /\ vm'.gstate = "Running") =>
            /\ simics.state = "running"
            /\ ChannelRead(shm) = [status |-> "Ok", bytes |-> h.input]]_vars

\* C15 witness: in the second iteration the guest has saved the input of
\* that iteration, which differs from the 0x44 fill of its buffer.
C15_Witness ==
    /\ i = 1
    /\ vm.gstate = "Running"
    /\ vm.status = "saved"
    /\ vm.lockbox.data = h.input
    /\ \E k \in 1..InputLen : h.input[k] # FillByte


\* C16: the host and the guest never access the shared memory at the same
\* time: the host writes it only between reset and run, while the guest is
\* not executing; the guest writes it only during run; the host reads the
\* output only after run has returned; no state has two writers.
C16_NoConcurrentAccess ==
    /\ [](pc = "inject" => (simics.state = "reset" /\ vm.gstate = "Idle"))
    /\ [](pc = "classify" => (simics.state = "returned" /\ h.nRun = i + 1))
    /\ [](~(ENABLED Inject /\ ENABLED GuestOutput))
    /\ [][(shm' # shm /\ pc # "alloc") =>
            \/ /\ h'.nInject = h.nInject + 1
               /\ simics.state = "reset" /\ vm' = vm /\ vm.gstate = "Idle"
            \/ /\ h'.nInject = h.nInject
               /\ simics.state = "running" /\ vm.gstate = "Running"
               /\ pc = "running" /\ pc' = "running"]_vars
    /\ [][i' # i => (simics.state = "returned" /\ vm' = vm /\ shm' = shm)]_vars

\* C16 witness: the host is reading the output of a run in which the guest
\* wrote to the region, in an iteration after the first.
C16_Witness ==
    /\ pc = "classify"
    /\ i >= 1
    /\ simics.state = "returned"
    /\ h.wroteMarker
    /\ IsFail(shm)


\* C17: every iteration performs reset, inject, run, read of the output and
\* classification in that order: each run is preceded by exactly one reset
\* and one completed inject since the previous run, and the output is read
\* only after that iteration's run has returned.
C17_IterationOrder ==
    /\ [](pc = "reset" =>
            (h.nReset = i /\ h.nInject = i /\ h.nRun = i))
    /\ [](pc = "inject" =>
            (h.nReset = i + 1 /\ h.nInject = i /\ h.nRun = i))
    /\ [](pc = "run" =>
            (h.nReset = i + 1 /\ h.nInject = i + 1 /\ h.nRun = i))
    /\ [](pc \in {"running", "classify"} =>
            (h.nReset = i + 1 /\ h.nInject = i + 1 /\ h.nRun = i + 1))
    /\ [](pc = "classify" => simics.state = "returned")
    /\ [][h'.nRun # h.nRun =>
            /\ h'.nRun = h.nRun + 1
            /\ h.nReset = h.nRun + 1
            /\ h.nInject = h.nRun + 1
            /\ simics.state = "reset"]_vars
    /\ [][i' # i =>
            /\ i' = i + 1
            /\ h.nRun = i + 1
            /\ simics.state = "returned"]_vars

\* C17 witness: the last iteration is at its classification, after as many
\* resets, injects and runs as there are iterations.
C17_Witness ==
    /\ pc = "classify"
    /\ i = NIter - 1
    /\ h.nReset = NIter
    /\ h.nInject = NIter
    /\ h.nRun = NIter
    /\ simics.state = "returned"


\* C18: a successful write of a payload of length n leaves the length in the
\* header and the payload after it, and every byte at offset
\* header_size + n or beyond exactly as it was before the write.
C18_WriteLeavesResidue ==
    (chan.phase = "written" /\ chan.wstatus = "Ok") =>
        /\ \A k \in 1..HeaderSize :
               shm[k - 1] = LEBytes(chan.len, HeaderSize)[k]
        /\ \A k \in 1..chan.len :
               shm[HeaderSize + k - 1] = Payload(chan.len, chan.pat)[k]
        /\ \A off \in DOMAIN shm :
               off >= HeaderSize + chan.len => shm[off] = chan.before[off]

\* C18 witness: a short payload has been written over a longer one, and a
\* character of the longer one is still in the region beyond the new
\* payload.
C18_Witness ==
    /\ chan.phase = "written"
    /\ chan.wstatus = "Ok"
    /\ chan.writes = 2
    /\ chan.len = 3
    /\ \E off \in DOMAIN shm :
          /\ off >= HeaderSize + chan.len
          /\ shm[off] \notin {0, 255}
          /\ shm[off] = chan.before[off]


C20_StaleMarkerNotCounted ==
    /\ [](pc = "run" =>
            /\ \A k \in 0..(InputLen - 2) : shm[HeaderSize + k] # 0
            /\ ~IsFail(shm))
    /\ []((pc = "classify" /\ IsFail(shm)) => h.wroteMarker)
    /\ [][failcnt' # failcnt =>
            (failcnt' = failcnt + 1 /\ h.wroteMarker /\ h.nRun = i + 1)]_vars

\* C20 witness: the first iteration was counted as a failure and left the
\* marker in the region; in the second the guest did not write it, and the
\* host finds no marker.
C20_Witness ==
    /\ pc = "classify"
    /\ i = 1
    /\ failcnt = 1
    /\ simics.outcome = "Completed"
    /\ ~h.wroteMarker
    /\ ~IsFail(shm)

===========================================================================
